---- MODULE Spec2Model ----
(***************************************************************************)
(* Event status lifecycle of uni-event-hub-backend.                        *)
(*                                                                         *)
(* The store holds Event documents (the EventSchema with completedAt,      *)
(* lastStatusUpdate and statusUpdateCount).  Three pieces of code move an  *)
(* event between upcoming, ongoing and completed:                          *)
(*   - EventStatusService.updateAllEventStatuses: three bulk updateMany    *)
(*     calls and one aggregate, each awaited, guarded by isRunning;        *)
(*   - EventSchema.methods.updateStatus: the per-document decision;        *)
(*   - EventSchema.statics.updateEventsStatus: find, then updateStatus and *)
(*     save per document.                                                  *)
(* Request handlers (createEvent, updateEvent, deleteEvent) write the same *)
(* documents.  Event.updateEventsStatus has no caller in the repository;   *)
(* the model lets it be called at any time, next to the service and the    *)
(* handlers.                                                               *)
(*                                                                         *)
(* A step of the model is what the code does between two awaits: a value   *)
(* computed before an await (a captured now, a validated document, the     *)
(* fields updateStatus has set) is written when the store operation lands, *)
(* at whatever time that is.                                               *)
(* Times are milliseconds since the start of the run.                      *)
(***************************************************************************)
EXTENDS Integers, Sequences, FiniteSets, Bags, TLC

VARIABLES
    clock,          \* wall clock: what new Date() / Date.now() returns
    events,         \* the events collection: EventIds -> document
    since,          \* per event, when its insert landed in the collection
    enabled,        \* EventStatusService.enabled
    isRunning,      \* EventStatusService.isRunning
    svc,            \* per caller of updateAllEventStatuses: position and captured now
    startupFired,   \* the setTimeout callback of init() has run
    bulk,           \* the calls of Event.updateEventsStatus in progress, a bag: position, documents to go, update on its way
    interfered,     \* history: a handler or another pass wrote the store during the service pass
    updated,        \* updatedCount of the pass of updateAllEventStatuses in flight
    changed,        \* history: records whose status the pass in flight has changed
    admin,          \* the response adminController.manualStatusUpdate sent last
    tick,           \* history of the calls of the reconcilers: their schedule, what the filter left out
    written,        \* history: per event, the writes of the pass in flight to its record
    enrol,          \* per event maxParticipants and participants; the requests that change them
    cert,           \* the certificates collection and the issueCertificates request
    info            \* the request to adminController.getStatusServiceInfo and its response

\* the participants of events, the certificates and the status request
api == << enrol, cert, info >>

\* what a pass counts, returns and reports, the periodic caller, participants,
\* certificates and the status request
aux == << updated, changed, admin, tick, written, enrol, cert, info >>

vars == << clock, events, since, enabled, isRunning, svc, startupFired, bulk, interfered,
           updated, changed, admin, tick, written, enrol, cert, info >>

----------------------------------------------------------------------------
(* Bounds of the model *)

\* the clock stops after this many of its steps, a schedule of calls after
\* this many of its periods
MaxTicks == 3

(* Program constants *)

FiveMinutes == 5 * 60 * 1000
ThirtyMinutes == 30 * 60 * 1000
OneMinute == 60000

\* this.updateInterval = process.env.EVENT_STATUS_UPDATE_INTERVAL || "5"
UpdateInterval == 5

\* "*/N * * * *": every minute of the hour that N divides
IsTick(now) == now % (UpdateInterval * OneMinute) = 0

\* the collection holds at most one document at a time
EventIds == {1}
Callers == {"cron", "startup", "manual"}
\* how many calls of Event.updateEventsStatus can be in progress at the same
\* time
MaxCalls == 2

\* a field that is not there: completedAt: { type: Date } has no default
Absent == -1

\* a field that holds null, which a request body can carry
Null == -2

\* dates a request body carries, relative to the time of the request
DateOffsets == {0, ThirtyMinutes}
\* how far the clock moves in one step
ClockStep == 15 * 60 * 1000

MaxClock == MaxTicks * ClockStep

\* how long the store takes for the write of a request handler: the time
\* between the call (validation, defaults) and the landing of the write
Stalls == {0, 2 * ClockStep}

\* when a handler whose write lands at now was called
CallTimes(now) == {now - s : s \in {d \in Stalls : d <= now}}

\* a slot of the collection that holds no document
NoEvent ==
    [status |-> "none", date |-> 0, completedAt |-> Absent,
     lastStatusUpdate |-> 0, statusUpdateCount |-> 0]

Exists(ev, e) == ev[e].status # "none"

----------------------------------------------------------------------------
(* EventSchema: validator, defaults and document methods *)

\* date validator: eventUTCTime > nowUTC - 60000
DateValid(value, nowUTC) == value > nowUTC - OneMinute

\* document.validate() as Event.create and save() run it, at the time of the
\* call: the validators of the paths of the document, also of the paths that
\* were loaded and not modified; of the fields followed here date has one
ValidateDoc(doc, now) == DateValid(doc.date, now)

\* Event.create: defaults status "upcoming", lastStatusUpdate Date.now, statusUpdateCount 0
NewEvent(date, now) ==
    [status |-> "upcoming", date |-> date, completedAt |-> Absent,
     lastStatusUpdate |-> now, statusUpdateCount |-> 0]

\* the grace window compared with < instead of <=
NewStatus_StrictGrace(eventTime, now) ==
    LET thirtyMinutesAgo == now - ThirtyMinutes
    IN  IF eventTime < thirtyMinutesAgo THEN "completed"
        ELSE IF eventTime <= now THEN "ongoing"
        ELSE "upcoming"

\* the status updateStatus decides on, for a document that is not cancelled
NewStatus(eventTime, now) ==
    LET thirtyMinutesAgo == now - ThirtyMinutes
    IN  IF eventTime <= thirtyMinutesAgo THEN "completed"
        ELSE IF eventTime <= now THEN "ongoing"
        ELSE "upcoming"

\* the guard "if (newStatus !== this.status)" dropped
StatusChanged_Always(newStatus, status) == TRUE

\* "Only update if status changed"
StatusChanged(newStatus, status) == newStatus # status

\* EventSchema.methods.updateStatus, on an in-memory document
updateStatus(doc, now) ==
    IF doc.status = "cancelled" THEN doc
    ELSE LET newStatus == NewStatus(doc.date, now)
         IN  IF StatusChanged(newStatus, doc.status)
             THEN [doc EXCEPT !.status = newStatus,
                              !.lastStatusUpdate = now,
                              !.statusUpdateCount = @ + 1,
                              !.completedAt = IF newStatus = "completed" THEN now ELSE Absent]
             ELSE doc

\* event.isModified("status")
IsModifiedStatus(loaded, doc) == doc.status # loaded.status

\* what event.save() sends for a document that was loaded as loaded and is
\* now doc: $set / $unset of the modified paths only
Modified(loaded, doc) ==
    [f \in {g \in DOMAIN doc : doc[g] # loaded[g]} |-> doc[f]]

\* a filter that leaves out what was updated in the last 10 minutes
IsCandidate_TenMinutes(doc, now) ==
    /\ doc.status # "none"
    /\ doc.status # "cancelled"
    /\ \/ doc.lastStatusUpdate = Absent
       \/ /\ doc.lastStatusUpdate \notin {Absent, Null}
          /\ doc.lastStatusUpdate < now - 2 * FiveMinutes

\* the filter of updateEventsStatus: not cancelled, and lastStatusUpdate
\* either a date more than 5 minutes before now ($lt matches dates only, not
\* null) or not there ($exists: false, which a field that holds null fails)
IsCandidate(doc, now) ==
    /\ doc.status # "none"
    /\ doc.status # "cancelled"
    /\ \/ /\ doc.lastStatusUpdate \notin {Absent, Null}
          /\ doc.lastStatusUpdate < now - FiveMinutes
       \/ doc.lastStatusUpdate = Absent

----------------------------------------------------------------------------
(* services/eventStatusService.js: the three bulk updates *)

\* the first filter without its lower bound: every started event matches
MatchOngoing_NoLowerBound(doc, now) ==
    /\ doc.status \in {"upcoming", "ongoing"}
    /\ doc.date <= now

\* filter of the first updateMany
MatchOngoing(doc, now) ==
    LET ongoingThreshold == now - ThirtyMinutes
    IN  /\ doc.status \in {"upcoming", "ongoing"}
        /\ doc.date <= now
        /\ doc.date >= ongoingThreshold

\* the second filter without the 30 minutes: every started event completes
MatchCompleted_NoGrace(doc, now) ==
    /\ doc.status \in {"upcoming", "ongoing"}
    /\ doc.date < now

\* filter of the second updateMany
MatchCompleted(doc, now) ==
    LET completedThreshold == now - ThirtyMinutes
    IN  /\ doc.status \in {"upcoming", "ongoing"}
        /\ doc.date < completedThreshold

\* the third filter with the bound included: an event that starts now is
\* taken back to upcoming
MatchUpcoming_Inclusive(doc, now) ==
    /\ doc.status \in {"ongoing", "completed"}
    /\ doc.date >= now

\* filter of the third updateMany
MatchUpcoming(doc, now) ==
    /\ doc.status \in {"ongoing", "completed"}
    /\ doc.date > now

SetOngoing(doc, now) ==
    [doc EXCEPT !.status = "ongoing", !.lastStatusUpdate = now]

SetCompleted(doc, now) ==
    [doc EXCEPT !.status = "completed", !.completedAt = now, !.lastStatusUpdate = now]

SetUpcoming(doc, now) ==
    [doc EXCEPT !.status = "upcoming", !.completedAt = Absent, !.lastStatusUpdate = now]

UpdateManyOngoing(ev, now) ==
    [e \in EventIds |-> IF MatchOngoing(ev[e], now) THEN SetOngoing(ev[e], now) ELSE ev[e]]

UpdateManyCompleted(ev, now) ==
    [e \in EventIds |-> IF MatchCompleted(ev[e], now) THEN SetCompleted(ev[e], now) ELSE ev[e]]

UpdateManyUpcoming(ev, now) ==
    [e \in EventIds |-> IF MatchUpcoming(ev[e], now) THEN SetUpcoming(ev[e], now) ELSE ev[e]]

\* the three updateMany calls of one pass, in the order of the code, with no
\* other write in between
PassFn(ev, now) ==
    UpdateManyUpcoming(UpdateManyCompleted(UpdateManyOngoing(ev, now), now), now)

\* the guard never holds a call back
AlreadyRunning_Never(running) == FALSE

\* the guard at the top of updateAllEventStatuses
AlreadyRunning(running) == running

Idle == [pc |-> "idle", now |-> 0]
InFlight(c) == svc[c].pc # "idle"

\* no call of updateEventsStatus in progress
BulkIdle == [pc |-> "idle"]

\* manualStatusUpdate has sent no response that the client still holds
AdminIdle == [pc |-> "idle", outcome |-> "none"]

\* no reconciler has been called.  done: updateEventsStatus has been called at
\* this instant; regular: so far it was called once at every instant of the
\* schedule, at no other time, and each call was over before the next;
\* per event, the calls in a row, made since a reconciler last wrote it, that
\* found it out of date and did not select it (missed), how many such calls
\* came before the one that selected it (waited), and whether a reconciler
\* wrote it after the call in progress was made (stale); overlap: a reconciler was called while a call of the other, or
\* another call of updateEventsStatus, was in progress
TickIdle ==
    [done |-> FALSE, regular |-> TRUE,
     missed |-> [e \in EventIds |-> 0], waited |-> [e \in EventIds |-> 0],
     stale |-> [e \in EventIds |-> FALSE], overlap |-> FALSE]

\* the pass in flight has written no record
NoWrites == [e \in EventIds |-> 0]

\* the students that send requests
Students == {"s1"}

\* the requests that can be in progress at the same time
Requests == {"r1", "r2"}

\* no request of this slot in progress
RequestIdle == [pc |-> "idle"]

\* no participants, no request in progress
EnrolIdle ==
    [max |-> [e \in EventIds |-> 0],
     participants |-> [e \in EventIds |-> << >>],
     req |-> [r \in Requests |-> RequestIdle]]

\* no certificate, no issueCertificates request in progress; of a request:
\* the event and the winner of its body, who sent it, the status its read of
\* the event found, the MetaMask address of the student it found, its answer
\* and the number of certificates the answer lists
CertIdle ==
    [certs |-> {}, pc |-> "idle", event |-> 0, winner |-> "none",
     requester |-> "none", status |-> "none", wallet |-> "none",
     http |-> 0, issued |-> 0]

\* no getStatusServiceInfo request in progress
InfoIdle == [pc |-> "idle"]

----------------------------------------------------------------------------
Init ==
    /\ clock = 0
    /\ events = [e \in EventIds |-> NoEvent]
    /\ since = [e \in EventIds |-> Absent]
    /\ enabled \in BOOLEAN
    /\ isRunning = FALSE
    /\ svc = [c \in Callers |-> Idle]
    /\ startupFired = FALSE
    /\ bulk = EmptyBag
    /\ interfered = FALSE
    /\ updated = 0
    /\ changed = 0
    /\ admin = AdminIdle
    /\ tick = TickIdle
    /\ written = NoWrites
    /\ enrol = EnrolIdle
    /\ cert = CertIdle
    /\ info = InfoIdle

\* the delay of the startup pass: setTimeout(..., 10000)
StartupDelay == 10000

\* the instant the clock shows next, on a grid of step: the instant the
\* startup timeout is due, while init() has set it and it has not fired; else
\* the next instant of the grid
NextInstant(step) ==
    IF enabled /\ ~startupFired /\ clock < StartupDelay THEN StartupDelay
    ELSE (clock \div step) * step + step

\* time passes; the startup timeout runs its callback when it is due,
\* StartupDelay after init()
Advance ==
    /\ NextInstant(ClockStep) <= MaxClock
    /\ (enabled /\ ~startupFired) => clock < StartupDelay
    /\ clock' = NextInstant(ClockStep)
    /\ UNCHANGED << events, since, enabled, isRunning, svc, startupFired, bulk, interfered >>

\* a handler's write lands while a service pass is in flight
NoteWrite == interfered' = (interfered \/ isRunning)

\* the roles a student record can hold when the pre("save") hook reads the
\* organizer back; "none" stands for a student that is no longer there
Roles == {"organizer", "admin", "participant", "none"}

\* pre("save") of a new document: Student.findById(this.organizer) must find
\* a student ("Organizer not found") whose role is organizer or admin ("Only
\* organizers or admins can create events")
OrganizerOk(role) == role \in {"organizer", "admin"}

\* eventController.createEvent, called at time at by a requester whose stored
\* role is role: Event.create builds the document with the defaults of that
\* time and validates it, the hook reads the organizer, and the insert lands
\* now
CreateEvent(e, date, at, role) ==
    /\ ~Exists(events, e)
    /\ at \in CallTimes(clock)
    /\ ValidateDoc(NewEvent(date, at), at)
    /\ OrganizerOk(role)
    /\ events' = [events EXCEPT ![e] = NewEvent(date, at)]
    /\ since' = [since EXCEPT ![e] = clock]
    /\ NoteWrite
    /\ UNCHANGED << clock, enabled, isRunning, svc, startupFired, bulk >>

\* the documents updateEventsStatus holds in memory are those of the event
\* that deleteEvent removes: their _id matches no stored document from now on
Orphan(b, e) ==
    IF b.pc # "save" THEN b
    ELSE [b EXCEPT !.gone = b.gone \/ b.id = e,
                   !.docs = [i \in 1..Len(b.docs) |->
                                [id |-> b.docs[i].id, doc |-> b.docs[i].doc,
                                 gone |-> b.docs[i].gone \/ b.docs[i].id = e]]]

\* eventController.deleteEvent: Event.findOneAndDelete
DeleteEvent(e) ==
    /\ Exists(events, e)
    /\ events' = [events EXCEPT ![e] = NoEvent]
    /\ since' = [since EXCEPT ![e] = Absent]
    /\ LET Orphaned(b) == Orphan(b, e)
       IN  bulk' = BagOfAll(Orphaned, bulk)
    /\ NoteWrite
    /\ UNCHANGED << clock, enabled, isRunning, svc, startupFired >>

\* the statuses of the enum of the schema
Statuses == {"upcoming", "ongoing", "completed", "cancelled"}

\* runValidators: the update validators of the paths the body sets, run at
\* the time of the call
BodyValid(body, at) ==
    /\ "date" \in DOMAIN body => DateValid(body.date, at)
    /\ "status" \in DOMAIN body => body.status \in Statuses

\* the document after an update that sets the fields of body and leaves the
\* others.  A save sends $unset for a path it has set to undefined (Absent);
\* a request body cannot: mongoSanitize drops the keys that start with $
ApplyBody(doc, body) ==
    [status |-> IF "status" \in DOMAIN body THEN body.status ELSE doc.status,
     date |-> IF "date" \in DOMAIN body THEN body.date ELSE doc.date,
     completedAt |-> IF "completedAt" \in DOMAIN body
                     THEN body.completedAt ELSE doc.completedAt,
     lastStatusUpdate |-> IF "lastStatusUpdate" \in DOMAIN body
                          THEN body.lastStatusUpdate ELSE doc.lastStatusUpdate,
     statusUpdateCount |-> IF "statusUpdateCount" \in DOMAIN body
                           THEN body.statusUpdateCount ELSE doc.statusUpdateCount]

\* the route of updateEvent runs checkEventExists and isEventOrganizer
\* first: each has found the document by its _id before the handler is
\* called, so the event was in the collection at the time of the call
InStoreAt(e, at) == since[e] # Absent /\ since[e] <= at

\* eventController.updateEvent, called at time at on an event the middleware
\* has found: Event.findOneAndUpdate with req.body as the update and
\* runValidators; the update lands now, on the document if it is still there
\* (else null, 404)
UpdateEvent(e, body, at) ==
    /\ Exists(events, e)
    /\ at \in CallTimes(clock)
    /\ InStoreAt(e, at)
    /\ BodyValid(body, at)
    /\ events' = [events EXCEPT ![e] = ApplyBody(@, body)]
    /\ NoteWrite
    /\ UNCHANGED << clock, since, enabled, isRunning, svc, startupFired, bulk >>

\* updateEvent with body { date }
EditDate(e, date, at) ==
    /\ date # events[e].date
    /\ UpdateEvent(e, [date |-> date], at)

\* updateEvent with body { status: "cancelled" }
CancelEvent(e) ==
    /\ events[e].status # "cancelled"
    /\ UpdateEvent(e, [status |-> "cancelled"], clock)

\* an init that registers the timers whatever enabled is
MayCall_Always(c) ==
    CASE c = "cron" -> IsTick(clock)
      [] c = "startup" -> ~startupFired /\ clock >= StartupDelay
      [] OTHER -> TRUE

\* who may call updateAllEventStatuses now: the cron callback and the startup
\* timeout exist only when the service is enabled, the cron callback runs at
\* the instants of its expression and the timeout once, when its delay has
\* passed; manualUpdate always
MayCall(c) ==
    CASE c = "cron" -> enabled /\ IsTick(clock)
      [] c = "startup" -> enabled /\ ~startupFired /\ clock >= StartupDelay
      [] OTHER -> TRUE

\* updateAllEventStatuses up to its first await: the guard, where a call made
\* while a pass is in flight returns; else isRunning = true, now = new Date()
SvcCall(c) ==
    /\ MayCall(c)
    /\ startupFired' = (startupFired \/ c = "startup")
    /\ IF AlreadyRunning(isRunning)
       THEN UNCHANGED << isRunning, svc, interfered >>
       ELSE /\ isRunning' = TRUE
            /\ svc' = [svc EXCEPT ![c] = [pc |-> "ongoing", now |-> clock]]
            /\ interfered' = FALSE
    /\ UNCHANGED << clock, events, since, enabled, bulk >>

\* a finally block that does not reset the flag
Finally_KeepRunning(c) ==
    /\ isRunning' = isRunning
    /\ svc' = [svc EXCEPT ![c] = Idle]
    /\ interfered' = FALSE

\* the finally block
Finally(c) ==
    /\ isRunning' = FALSE
    /\ svc' = [svc EXCEPT ![c] = Idle]
    /\ interfered' = FALSE

\* first updateMany
SvcOngoing(c) ==
    /\ svc[c].pc = "ongoing"
    /\ events' = UpdateManyOngoing(events, svc[c].now)
    /\ svc' = [svc EXCEPT ![c].pc = "completed"]
    /\ UNCHANGED << clock, since, enabled, isRunning, startupFired, bulk, interfered >>

\* second updateMany
SvcCompleted(c) ==
    /\ svc[c].pc = "completed"
    /\ events' = UpdateManyCompleted(events, svc[c].now)
    /\ svc' = [svc EXCEPT ![c].pc = "upcoming"]
    /\ UNCHANGED << clock, since, enabled, isRunning, startupFired, bulk, interfered >>

\* third updateMany
SvcUpcoming(c) ==
    /\ svc[c].pc = "upcoming"
    /\ events' = UpdateManyUpcoming(events, svc[c].now)
    /\ svc' = [svc EXCEPT ![c].pc = "summary"]
    /\ UNCHANGED << clock, since, enabled, isRunning, startupFired, bulk, interfered >>

\* Event.aggregate, then finally
SvcSummary(c) ==
    /\ svc[c].pc = "summary"
    /\ Finally(c)
    /\ UNCHANGED << clock, events, since, enabled, startupFired, bulk >>

\* a store operation of the pass throws: catch, then finally
SvcError(c) ==
    /\ InFlight(c)
    /\ Finally(c)
    /\ UNCHANGED << clock, events, since, enabled, startupFired, bulk >>

\* documents of the collection that pass the filter, in id order
RECURSIVE FindCandidates(_, _, _)
FindCandidates(ev, ids, now) ==
    IF ids = {} THEN << >>
    ELSE LET e == CHOOSE x \in ids : \A y \in ids : x <= y
             rest == FindCandidates(ev, ids \ {e}, now)
         IN  IF IsCandidate(ev[e], now)
             THEN << [id |-> e, doc |-> ev[e], gone |-> FALSE] >> \o rest
             ELSE rest

\* event.save() as it lands on the stored document: the modified paths are
\* written, the others stay as the store has them
SaveDoc(stored, update) == ApplyBody(stored, update)

\* the for loop of updateEventsStatus runs without suspending over documents
\* that updateStatus leaves alone
RECURSIVE SkipUnmodified(_, _)
SkipUnmodified(docs, now) ==
    IF docs = << >> THEN docs
    ELSE IF IsModifiedStatus(Head(docs).doc, updateStatus(Head(docs).doc, now))
         THEN docs
         ELSE SkipUnmodified(Tail(docs), now)

\* the for loop of updateEventsStatus from the documents docs on, at time now,
\* up to its next await: event.updateStatus() on each; for the first one whose
\* status it modifies, event.save() is called.  save() validates before it
\* sends anything: a document that fails is rejected and updateEventsStatus
\* rethrows; else the fields updateStatus has set are on their way.  With no
\* document left the function returns
BulkLoop(docs, now) ==
    LET todo == SkipUnmodified(docs, now)
    IN  IF todo = << >>
        THEN BulkIdle
        ELSE IF ~ValidateDoc(updateStatus(Head(todo).doc, now), now)
        THEN BulkIdle
        ELSE [pc |-> "save", id |-> Head(todo).id,
              update |-> Modified(Head(todo).doc, updateStatus(Head(todo).doc, now)),
              at |-> now, gone |-> Head(todo).gone, docs |-> Tail(todo)]

\* the calls in progress once call b has moved on to position next, or is
\* over
Moved(b, next) ==
    IF next = BulkIdle
    THEN bulk (-) SetToBag({b})
    ELSE (bulk (-) SetToBag({b})) (+) SetToBag({next})

\* Event.updateEventsStatus up to its first await: const now = new Date(),
\* this.find(...) is sent
BulkCall ==
    /\ BagCardinality(bulk) < MaxCalls
    /\ bulk' = bulk (+) SetToBag({[pc |-> "find", now |-> clock]})
    /\ UNCHANGED << clock, events, since, enabled, isRunning, svc, startupFired, interfered >>

\* this.find(...) of call b lands: the filter, built from the now of the
\* call, selects from the store as it is; the loop runs to its first save
BulkFind(b) ==
    /\ BagIn(b, bulk)
    /\ b.pc = "find"
    /\ bulk' = Moved(b, BulkLoop(FindCandidates(events, EventIds, b.now), clock))
    /\ UNCHANGED << clock, events, since, enabled, isRunning, svc, startupFired, interfered >>

\* event.save() rejects when it lands: its _id matches no stored document
\* (a document that fails validation never has a save in flight)
SaveRejects(b) == b.gone

\* event.save() of call b lands: what updateStatus set when save was called
\* is written; then the loop runs to its next save.  A save that rejects
\* writes nothing and updateEventsStatus rethrows
BulkSave(b) ==
    /\ BagIn(b, bulk)
    /\ b.pc = "save"
    /\ events' = IF SaveRejects(b) THEN events
                 ELSE [events EXCEPT ![b.id] = SaveDoc(@, b.update)]
    /\ bulk' = Moved(b, IF SaveRejects(b) THEN BulkIdle ELSE BulkLoop(b.docs, clock))
    /\ IF SaveRejects(b) THEN UNCHANGED interfered ELSE NoteWrite
    /\ UNCHANGED << clock, since, enabled, isRunning, svc, startupFired >>

\* the store fails on the find or the save of call b: updateEventsStatus logs
\* and rethrows
BulkError(b) ==
    /\ BagIn(b, bulk)
    /\ bulk' = Moved(b, BulkIdle)
    /\ UNCHANGED << clock, events, since, enabled, isRunning, svc, startupFired, interfered >>

\* the statuses the reconciliation moves an event between
LifecycleStatuses == {"upcoming", "ongoing", "completed"}

\* updateEvent with body { status }: the enum validator accepts every status
EditStatus(e, s) ==
    /\ s # events[e].status
    /\ UpdateEvent(e, [status |-> s], clock)

\* The service, the handlers and Event.updateEventsStatus called at any time.
\* The count, the return value and the response of a pass are read by no
\* guard; this specification leaves them out.
Next ==
    \/ Advance /\ UNCHANGED aux
    \/ \E e \in EventIds, o \in DateOffsets, at \in CallTimes(clock), role \in Roles :
           CreateEvent(e, at + o, at, role) /\ UNCHANGED aux
    \/ \E e \in EventIds, o \in DateOffsets, at \in CallTimes(clock) :
           EditDate(e, at + o, at) /\ UNCHANGED aux
    \/ \E e \in EventIds : CancelEvent(e) /\ UNCHANGED aux
    \/ \E c \in Callers : SvcCall(c) /\ UNCHANGED aux
    \/ \E c \in Callers : SvcOngoing(c) /\ UNCHANGED aux
    \/ \E c \in Callers : SvcCompleted(c) /\ UNCHANGED aux
    \/ \E c \in Callers : SvcUpcoming(c) /\ UNCHANGED aux
    \/ \E c \in Callers : SvcSummary(c) /\ UNCHANGED aux
    \/ \E c \in Callers : SvcError(c) /\ UNCHANGED aux
    \/ BulkCall /\ UNCHANGED aux
    \/ \E b \in BagToSet(bulk) : BulkFind(b) /\ UNCHANGED aux
    \/ \E b \in BagToSet(bulk) : BulkSave(b) /\ UNCHANGED aux
    \/ \E b \in BagToSet(bulk) : BulkError(b) /\ UNCHANGED aux

Spec == Init /\ [][Next]_vars

----------------------------------------------------------------------------
(* What a pass counts and returns, and adminController.manualStatusUpdate *)

\* modifiedCount of an updateMany whose filter matches the events of the set
\* matched: the schema has timestamps, so every matched document is written
ModifiedCount(matched) == Cardinality(matched)

\* records whose stored status a step changes
StatusChanges == Cardinality({e \in EventIds : events'[e].status # events[e].status})

\* the value of a function that returns without an expression
Undefined == [kind |-> "undefined"]

\* what updateAllEventStatuses resolves to: "return;" at the guard, the end of
\* the function body after try, catch and finally otherwise
ReturnOf(outcome) ==
    CASE outcome = "skipped" -> Undefined
      [] outcome = "failed" -> Undefined
      [] OTHER -> Undefined

\* manualUpdate: return await this.updateAllEventStatuses()
manualUpdate(outcome) == ReturnOf(outcome)

\* a getStatus that reports no pass in flight
getStatus_Stale(running, en, now) ==
    [isRunning |-> FALSE, enabled |-> en, updateInterval |-> UpdateInterval,
     lastRun |-> now, nextRun |-> now + UpdateInterval * OneMinute]

\* eventStatusService.getStatus()
getStatus(running, en, now) ==
    [isRunning |-> running, enabled |-> en, updateInterval |-> UpdateInterval,
     lastRun |-> now, nextRun |-> now + UpdateInterval * OneMinute]

\* manualStatusUpdate once manualUpdate has resolved: result is not read
StatusUpdateResponse(result, running, en, now) ==
    [http |-> 200, status |-> "success", message |-> "Event status update completed",
     triggeredAt |-> now, serviceStatus |-> getStatus(running, en, now)]

\* a request has been answered; outcome, count and moved record what its call
\* did: whether it ran a pass, and what that pass counted and changed
Responded(outcome, running, count, moved) ==
    [pc |-> "responded", outcome |-> outcome, result |-> manualUpdate(outcome),
     response |-> StatusUpdateResponse(manualUpdate(outcome), running, enabled, clock),
     count |-> count, moved |-> moved]

\* let updatedCount = 0, in a call that passed the guard
StartCount ==
    IF AlreadyRunning(isRunning)
    THEN UNCHANGED << updated, changed, written >>
    ELSE updated' = 0 /\ changed' = 0 /\ written' = NoWrites

\* the cron callback or the startup timeout calls updateAllEventStatuses
TimerCall(c) ==
    /\ c # "manual"
    /\ SvcCall(c)
    /\ StartCount
    /\ UNCHANGED << admin, api >>

\* POST /api/admin/events/update-status: manualStatusUpdate calls manualUpdate.
\* A call held back by the guard resolves at once and its request is answered,
\* also while an earlier request waits for its pass; a call that starts a pass
\* is answered when the pass ends
AdminRequest ==
    /\ SvcCall("manual")
    /\ StartCount
    /\ admin' = IF AlreadyRunning(isRunning)
                THEN Responded("skipped", isRunning, 0, 0)
                ELSE admin
    /\ UNCHANGED api

\* updatedCount += ongoingResult.modifiedCount
RunOngoing(c) ==
    /\ SvcOngoing(c)
    /\ updated' = updated + ModifiedCount({e \in EventIds : MatchOngoing(events[e], svc[c].now)})
    /\ changed' = changed + StatusChanges
    /\ written' = [e \in EventIds |->
                      written[e] + IF MatchOngoing(events[e], svc[c].now) THEN 1 ELSE 0]
    /\ UNCHANGED << admin, tick, api >>

\* updatedCount += completedResult.modifiedCount
RunCompleted(c) ==
    /\ SvcCompleted(c)
    /\ updated' = updated + ModifiedCount({e \in EventIds : MatchCompleted(events[e], svc[c].now)})
    /\ changed' = changed + StatusChanges
    /\ written' = [e \in EventIds |->
                      written[e] + IF MatchCompleted(events[e], svc[c].now) THEN 1 ELSE 0]
    /\ UNCHANGED << admin, tick, api >>

\* updatedCount += upcomingResult.modifiedCount
RunUpcoming(c) ==
    /\ SvcUpcoming(c)
    /\ updated' = updated + ModifiedCount({e \in EventIds : MatchUpcoming(events[e], svc[c].now)})
    /\ changed' = changed + StatusChanges
    /\ written' = [e \in EventIds |->
                      written[e] + IF MatchUpcoming(events[e], svc[c].now) THEN 1 ELSE 0]
    /\ UNCHANGED << admin, tick, api >>

\* the call of caller c resolves; for manualUpdate the controller answers:
\* manualStatusUpdate does not read result and sends 200 with getStatus() as
\* it is now.  Its catch (500) is not reached: updateAllEventStatuses catches
\* what its store operations throw, so manualUpdate never rejects
Resolve(c, outcome) ==
    /\ updated' = 0
    /\ changed' = 0
    /\ admin' = IF c = "manual" THEN Responded(outcome, isRunning', updated, changed) ELSE admin
    /\ written' = NoWrites
    /\ UNCHANGED << tick, api >>

\* the pass ends without a throw
RunSummary(c) == SvcSummary(c) /\ Resolve(c, "ran")

\* the pass ends in catch
RunError(c) == SvcError(c) /\ Resolve(c, "failed")

\* the client has read the response sent last
AdminDone ==
    /\ admin.pc = "responded"
    /\ admin' = AdminIdle
    /\ UNCHANGED << clock, events, since, enabled, isRunning, svc, startupFired, bulk, interfered, updated, changed, tick, written, api >>

\* The service with its timers, the handlers and the admin endpoint.
NextAdmin ==
    \/ Advance /\ UNCHANGED aux
    \/ \E e \in EventIds, o \in DateOffsets, at \in CallTimes(clock), role \in Roles :
           CreateEvent(e, at + o, at, role) /\ UNCHANGED aux
    \/ \E e \in EventIds, o \in DateOffsets, at \in CallTimes(clock) :
           EditDate(e, at + o, at) /\ UNCHANGED aux
    \/ \E e \in EventIds : CancelEvent(e) /\ UNCHANGED aux
    \/ \E c \in Callers : TimerCall(c) /\ UNCHANGED tick
    \/ AdminRequest /\ UNCHANGED tick
    \/ \E c \in Callers : RunOngoing(c)
    \/ \E c \in Callers : RunCompleted(c)
    \/ \E c \in Callers : RunUpcoming(c)
    \/ \E c \in Callers : RunSummary(c)
    \/ \E c \in Callers : RunError(c)
    \/ AdminDone

SpecAdmin == Init /\ [][NextAdmin]_vars

----------------------------------------------------------------------------
(* adminController.getStatusServiceInfo *)

\* Event.aggregate with $group by status and statusCounts.forEach: per status
\* that some stored event has, the number of events with it
EventSummary(ev) ==
    [s \in {ev[e].status : e \in {x \in EventIds : Exists(ev, x)}} |->
        Cardinality({e \in EventIds : ev[e].status = s})]

\* Event.countDocuments()
CountDocuments(ev) == Cardinality({e \in EventIds : Exists(ev, e)})

\* GET /api/admin/events/status-service: getStatusServiceInfo is called and
\* sends Event.aggregate to the store
InfoCall ==
    /\ info.pc = "idle"
    /\ info' = [pc |-> "aggregate"]
    /\ UNCHANGED << clock, events, since, enabled, isRunning, svc, startupFired, bulk,
                    interfered, updated, changed, admin, tick,
                    written, enrol, cert >>

\* the aggregate lands: the handler builds the summary and starts the object
\* of the response, which calls eventStatusService.getStatus() now, then
\* sends Event.countDocuments
InfoAggregate ==
    /\ info.pc = "aggregate"
    /\ info' = [pc |-> "count",
                service |-> getStatus(isRunning, enabled, clock),
                eventSummary |-> EventSummary(events)]
    /\ UNCHANGED << clock, events, since, enabled, isRunning, svc, startupFired, bulk,
                    interfered, updated, changed, admin, tick,
                    written, enrol, cert >>

\* countDocuments lands: the response goes out with the reading of getStatus
\* and the summary taken when the aggregate landed
InfoCount ==
    /\ info.pc = "count"
    /\ info' = [pc |-> "responded", http |-> 200, service |-> info.service,
                eventSummary |-> info.eventSummary,
                totalEvents |-> CountDocuments(events)]
    /\ UNCHANGED << clock, events, since, enabled, isRunning, svc, startupFired, bulk,
                    interfered, updated, changed, admin, tick,
                    written, enrol, cert >>

\* the aggregate or countDocuments throws: catch answers 500
InfoError ==
    /\ info.pc \in {"aggregate", "count"}
    /\ info' = [pc |-> "responded", http |-> 500]
    /\ UNCHANGED << clock, events, since, enabled, isRunning, svc, startupFired, bulk,
                    interfered, updated, changed, admin, tick,
                    written, enrol, cert >>

\* the client has its response
InfoDone ==
    /\ info.pc = "responded"
    /\ info' = InfoIdle
    /\ UNCHANGED << clock, events, since, enabled, isRunning, svc, startupFired, bulk,
                    interfered, updated, changed, admin, tick,
                    written, enrol, cert >>

\* The service with its timers, createEvent and the two admin endpoints.
NextInfo ==
    \/ Advance /\ UNCHANGED aux
    \/ \E e \in EventIds, o \in DateOffsets, at \in CallTimes(clock), role \in Roles :
           CreateEvent(e, at + o, at, role) /\ UNCHANGED aux
    \/ \E c \in Callers : TimerCall(c) /\ UNCHANGED tick
    \/ AdminRequest /\ UNCHANGED tick
    \/ \E c \in Callers : RunOngoing(c)
    \/ \E c \in Callers : RunCompleted(c)
    \/ \E c \in Callers : RunUpcoming(c)
    \/ \E c \in Callers : RunSummary(c)
    \/ \E c \in Callers : RunError(c)
    \/ AdminDone
    \/ InfoCall
    \/ InfoAggregate
    \/ InfoCount
    \/ InfoError
    \/ InfoDone

SpecInfo == Init /\ [][NextInfo]_vars

----------------------------------------------------------------------------
(* Passes one after another on events whose date is not edited *)

\* a call that starts a pass of the service, or a call of updateEventsStatus,
\* is made while another call of a reconciler is in progress
NoteOverlap(starts, others) ==
    tick' = [tick EXCEPT !.overlap = @ \/ (starts /\ others)]

\* The service, the admin endpoint, Event.updateEventsStatus and the handlers
\* that create and cancel events; the history notes whether calls of the
\* reconcilers have overlapped.
NextSequential ==
    \/ Advance /\ UNCHANGED aux
    \/ \E e \in EventIds, o \in DateOffsets, at \in CallTimes(clock), role \in Roles :
           CreateEvent(e, at + o, at, role) /\ UNCHANGED aux
    \/ \E e \in EventIds : CancelEvent(e) /\ UNCHANGED aux
    \/ \E c \in Callers :
           /\ TimerCall(c)
           /\ NoteOverlap(~AlreadyRunning(isRunning), bulk # EmptyBag)
    \/ /\ AdminRequest
       /\ NoteOverlap(~AlreadyRunning(isRunning), bulk # EmptyBag)
    \/ \E c \in Callers : RunOngoing(c)
    \/ \E c \in Callers : RunCompleted(c)
    \/ \E c \in Callers : RunUpcoming(c)
    \/ \E c \in Callers : RunSummary(c)
    \/ \E c \in Callers : RunError(c)
    \/ AdminDone
    \/ /\ BulkCall
       /\ NoteOverlap(TRUE, isRunning \/ bulk # EmptyBag)
       /\ UNCHANGED << updated, changed, admin, written, api >>
    \/ \E b \in BagToSet(bulk) : BulkFind(b) /\ UNCHANGED aux
    \/ \E b \in BagToSet(bulk) : BulkSave(b) /\ UNCHANGED aux
    \/ \E b \in BagToSet(bulk) : BulkError(b) /\ UNCHANGED aux

SpecSequential == Init /\ [][NextSequential]_vars

----------------------------------------------------------------------------
(* The enabled service on its timers, with store operations that eventually *)
(* succeed                                                                  *)

\* the callers that init() registers
Timers == {"cron", "startup"}

\* createEvent and the passes that the cron callback and the startup timeout
\* start; no edit, no cancellation
NextLive ==
    \/ Advance /\ UNCHANGED aux
    \/ \E e \in EventIds, o \in DateOffsets, at \in CallTimes(clock), role \in Roles :
           CreateEvent(e, at + o, at, role) /\ UNCHANGED aux
    \/ \E c \in Timers : SvcCall(c) /\ UNCHANGED aux
    \/ \E c \in Timers : SvcOngoing(c) /\ UNCHANGED aux
    \/ \E c \in Timers : SvcCompleted(c) /\ UNCHANGED aux
    \/ \E c \in Timers : SvcUpcoming(c) /\ UNCHANGED aux
    \/ \E c \in Timers : SvcSummary(c) /\ UNCHANGED aux
    \/ \E c \in Timers : SvcError(c) /\ UNCHANGED aux

\* time passes and the timers fire (weak fairness); a store operation that is
\* tried again and again succeeds in the end (strong fairness: a failure ends
\* the pass, and the next tick tries again)
FairLive ==
    /\ WF_vars(Advance /\ UNCHANGED aux)
    /\ \A c \in Timers : WF_vars(SvcCall(c) /\ UNCHANGED aux)
    /\ \A c \in Timers : SF_vars(SvcOngoing(c) /\ UNCHANGED aux)
    /\ \A c \in Timers : SF_vars(SvcCompleted(c) /\ UNCHANGED aux)
    /\ \A c \in Timers : SF_vars(SvcUpcoming(c) /\ UNCHANGED aux)
    /\ \A c \in Timers : SF_vars(SvcSummary(c) /\ UNCHANGED aux)

\* ENABLE_AUTO_STATUS_UPDATES is not "false"
InitLive == Init /\ enabled = TRUE

SpecLive == InitLive /\ [][NextLive]_vars /\ FairLive

----------------------------------------------------------------------------
(* Event.updateEventsStatus and a schedule of calls every updateInterval    *)
(* minutes                                                                 *)

\* under the schedule the clock moves from one of its instants to the next
TickStep == UpdateInterval * OneMinute

\* the schedule is followed over MaxTicks of its periods
TickHorizon == MaxTicks * UpdateInterval * OneMinute

\* the dates a request gives an event under the schedule: the time of the
\* request, or one period later
TickOffsets == {0, UpdateInterval * OneMinute}

\* the history of a schedule that is no longer regular keeps no counts
Irregular == [TickIdle EXCEPT !.regular = FALSE]

\* time passes, also while calls of updateEventsStatus and passes of the
\* service wait for the store; the startup timeout runs its callback when it
\* is due; an instant of the schedule that passes without a call ends the
\* regular schedule
TickAdvance ==
    /\ NextInstant(TickStep) <= TickHorizon
    /\ (enabled /\ ~startupFired) => clock < StartupDelay
    /\ clock' = NextInstant(TickStep)
    /\ tick' = IF tick.regular /\ (IsTick(clock) => tick.done)
               THEN [tick EXCEPT !.done = FALSE]
               ELSE Irregular
    /\ UNCHANGED << events, since, enabled, isRunning, svc, startupFired, bulk, interfered,
                    updated, changed, admin, written, api >>

\* updateEventsStatus is called, at any time and also while an earlier call
\* is in progress; the schedule stays regular with the first call at one of
\* its instants, made when the call before is over
TickCall ==
    /\ BulkCall
    /\ tick' = IF /\ tick.regular
                  /\ IsTick(clock)
                  /\ ~tick.done
                  /\ bulk = EmptyBag
               THEN [tick EXCEPT !.done = TRUE]
               ELSE Irregular
    /\ UNCHANGED << updated, changed, admin, written, api >>

\* the find of a call lands; an event that was there at the now of the call,
\* is out of date at that time (updateStatus would change its status) and
\* that the filter leaves out has been missed once more; the call does not
\* count for an event that a reconciler wrote after the call was made
TickFind(b) ==
    /\ BulkFind(b)
    /\ LET due(e) == /\ Exists(events, e)
                     /\ InStoreAt(e, b.now)
                     /\ IsModifiedStatus(events[e], updateStatus(events[e], b.now))
       IN  tick' = IF ~tick.regular THEN tick
                   ELSE [tick EXCEPT
                       !.missed = [e \in EventIds |->
                                      IF tick.stale[e] THEN tick.missed[e]
                                      ELSE IF due(e) /\ ~IsCandidate(events[e], b.now)
                                      THEN tick.missed[e] + 1 ELSE 0],
                       !.waited = [e \in EventIds |->
                                      IF ~tick.stale[e] /\ due(e) /\ IsCandidate(events[e], b.now)
                                      THEN tick.missed[e] ELSE tick.waited[e]],
                       !.stale = [e \in EventIds |-> FALSE]]
    /\ UNCHANGED << updated, changed, admin, written, api >>

\* deleteEvent under the schedule: the counts of the event end with it
TickDelete(e) ==
    /\ DeleteEvent(e)
    /\ tick' = IF ~tick.regular THEN tick
               ELSE [tick EXCEPT !.missed[e] = 0, !.waited[e] = 0, !.stale[e] = FALSE]
    /\ UNCHANGED << updated, changed, admin, written, api >>

\* the service calls updateAllEventStatuses next to the schedule: the cron
\* callback at the instants of "*/5 * * * *", the startup timeout once,
\* manualUpdate at any time
TickService(c) ==
    /\ SvcCall(c)
    /\ UNCHANGED aux

\* a reconciler writes the store: an event whose record it changes has not
\* been left untouched, and a call whose find is still on its way was made
\* before this write
TickTouch(write) ==
    /\ write
    /\ LET touched(e) == events'[e] # events[e]
           finding == \E b \in BagToSet(bulk) : b.pc = "find"
       IN  tick' = IF ~tick.regular THEN tick
                   ELSE [tick EXCEPT
                       !.missed = [e \in EventIds |->
                                      IF touched(e) THEN 0 ELSE tick.missed[e]],
                       !.stale = [e \in EventIds |->
                                     tick.stale[e] \/ (touched(e) /\ finding)]]
    /\ UNCHANGED << updated, changed, admin, written, api >>

\* Event.updateEventsStatus called next to the service, and the handlers that
\* create, delete, edit and cancel events.
NextTick ==
    \/ TickAdvance
    \/ \E e \in EventIds, o \in TickOffsets, at \in {clock}, role \in Roles :
           CreateEvent(e, at + o, at, role) /\ UNCHANGED aux
    \/ \E e \in EventIds, o \in TickOffsets, at \in {clock} :
           EditDate(e, at + o, at) /\ UNCHANGED aux
    \/ \E e \in EventIds, s \in LifecycleStatuses : EditStatus(e, s) /\ UNCHANGED aux
    \/ \E e \in EventIds : CancelEvent(e) /\ UNCHANGED aux
    \/ \E e \in EventIds : TickDelete(e)
    \/ \E c \in Callers : TickService(c)
    \/ \E c \in Callers : TickTouch(SvcOngoing(c))
    \/ \E c \in Callers : TickTouch(SvcCompleted(c))
    \/ \E c \in Callers : TickTouch(SvcUpcoming(c))
    \/ \E c \in Callers : SvcSummary(c) /\ UNCHANGED aux
    \/ \E c \in Callers : SvcError(c) /\ UNCHANGED aux
    \/ TickCall
    \/ \E b \in BagToSet(bulk) : TickFind(b)
    \/ \E b \in BagToSet(bulk) : TickTouch(BulkSave(b))
    \/ \E b \in BagToSet(bulk) : BulkError(b) /\ UNCHANGED aux

SpecTick == Init /\ [][NextTick]_vars

----------------------------------------------------------------------------
(* controllers/eventController.js: updateEvent with the fields of the      *)
(* lifecycle in the body, and issueCertificates                            *)

\* bodies that set the fields the reconciliation keeps: findOneAndUpdate
\* takes req.body as the update, whatever fields it names; a Date path takes
\* null
FieldBodies ==
    { [lastStatusUpdate |-> 4 * ClockStep, statusUpdateCount |-> 7,
       completedAt |-> FiveMinutes],
      [lastStatusUpdate |-> Null],
      [completedAt |-> Null],
      [statusUpdateCount |-> 0] }

\* updateEvent with one of these bodies
EditFields(e, body) ==
    /\ ApplyBody(events[e], body) # events[e]
    /\ UpdateEvent(e, body, clock)

\* the winner of a request: a student, an email no student has, or an entry
\* that fails the checks of its fields (no email, no URL, a malformed one)
Winners == Students \cup {"nobody", "malformed"}

\* who sends the request: the organizer of the event, an admin, or another
\* student whose role passes restrictTo
Requesters == {"organizer", "admin", "other"}

\* the metaMaskAddress of the student record that Student.findOne returns:
\* one that matches /^0x[a-fA-F0-9]{40}$/, none, or one that the validator
\* of the certificate schema rejects
Wallets == {"linked", "none", "malformed"}

\* event.organizer equals req.student._id, or req.student.role is "admin"
MayIssue(requester) == requester \in {"organizer", "admin"}

\* a gate that lets every status through
IsCompleted_Always(status) == TRUE

\* the gate of issueCertificates: event.status !== "completed" is refused
IsCompleted(status) == status = "completed"

\* the request is answered: status code and certificates listed
Answer(http, issued) ==
    [cert EXCEPT !.pc = "responded", !.http = http, !.issued = issued]

\* what a step of issueCertificates leaves alone
IssueFrame ==
    UNCHANGED << clock, events, since, enabled, isRunning, svc, startupFired, bulk,
                 interfered, updated, changed, admin, tick,
                 written, enrol, info >>

\* issueCertificates is called: 400 for a body without eventId or without a
\* non-empty winners array, else Event.findById(eventId).lean() is sent
IssueCall(e, w, requester, bodyOk) ==
    /\ cert.pc = "idle"
    /\ cert' = IF ~bodyOk
               THEN [cert EXCEPT !.pc = "responded", !.http = 400]
               ELSE [cert EXCEPT !.pc = "find", !.event = e, !.winner = w,
                                 !.requester = requester]
    /\ IssueFrame

\* findById lands: 404 for no event, 403 for a requester who is neither the
\* organizer nor an admin, 400 for an event that is not completed; else the
\* loop starts: an entry that fails the checks of its fields is an error of
\* the response, for another Student.findOne is sent
IssueFind ==
    /\ cert.pc = "find"
    /\ LET event == events[cert.event]
       IN  cert' = IF ~Exists(events, cert.event) THEN Answer(404, 0)
                   ELSE IF ~MayIssue(cert.requester)
                   THEN [Answer(403, 0) EXCEPT !.status = event.status]
                   ELSE IF ~IsCompleted(event.status)
                   THEN [Answer(400, 0) EXCEPT !.status = event.status]
                   ELSE IF cert.winner = "malformed"
                   THEN [Answer(201, 0) EXCEPT !.status = event.status]
                   ELSE [cert EXCEPT !.pc = "student", !.status = event.status]
    /\ IssueFrame

\* Student.findOne lands: no student with this email, or one without a
\* MetaMask address, is an error of the response; else Certificate.findOne is
\* sent
IssueStudent(wallet) ==
    /\ cert.pc = "student"
    /\ cert' = IF cert.winner \notin Students \/ wallet = "none"
               THEN Answer(201, 0)
               ELSE [cert EXCEPT !.pc = "existing", !.wallet = wallet]
    /\ IssueFrame

\* Certificate.findOne lands: a certificate of this student for this event is
\* an error of the response; else certificate.save() validates the new
\* document, which fails on a malformed address, and sends the insert
IssueExisting ==
    /\ cert.pc = "existing"
    /\ LET existing == \E r \in cert.certs :
                           r.event = cert.event /\ r.student = cert.winner
       IN  cert' = IF existing \/ cert.wallet = "malformed"
                   THEN Answer(201, 0)
                   ELSE [cert EXCEPT !.pc = "save"]
    /\ IssueFrame

\* the insert lands: the certificate is stored, Certificate.findById with
\* populate is sent
IssueSave ==
    /\ cert.pc = "save"
    /\ cert' = [cert EXCEPT
                   !.certs = @ \cup {[event |-> cert.event, student |-> cert.winner]},
                   !.pc = "populate"]
    /\ IssueFrame

\* the populated certificate arrives: the loop is over, the response lists it
IssuePopulate ==
    /\ cert.pc = "populate"
    /\ cert' = Answer(201, 1)
    /\ IssueFrame

\* a store operation of the loop throws: the catch inside the loop records
\* the error, and the response lists no certificate
IssueWinnerError ==
    /\ cert.pc \in {"student", "existing", "save", "populate"}
    /\ cert' = Answer(201, 0)
    /\ IssueFrame

\* Event.findById throws: the outer catch answers 500
IssueError ==
    /\ cert.pc = "find"
    /\ cert' = Answer(500, 0)
    /\ IssueFrame

\* the request is over
IssueDone ==
    /\ cert.pc = "responded"
    /\ cert' = [CertIdle EXCEPT !.certs = cert.certs]
    /\ IssueFrame

\* The service next to the handlers that create and delete an event and
\* update its fields.
NextApi ==
    \/ Advance /\ UNCHANGED aux
    \/ \E e \in EventIds, o \in DateOffsets, at \in CallTimes(clock), role \in Roles :
           CreateEvent(e, at + o, at, role) /\ UNCHANGED aux
    \/ \E e \in EventIds : DeleteEvent(e) /\ UNCHANGED aux
    \/ \E e \in EventIds, s \in LifecycleStatuses : EditStatus(e, s) /\ UNCHANGED aux
    \/ \E e \in EventIds : CancelEvent(e) /\ UNCHANGED aux
    \/ \E e \in EventIds, body \in FieldBodies : EditFields(e, body) /\ UNCHANGED aux
    \/ \E c \in Callers : SvcCall(c) /\ UNCHANGED aux
    \/ \E c \in Callers : SvcOngoing(c) /\ UNCHANGED aux
    \/ \E c \in Callers : SvcCompleted(c) /\ UNCHANGED aux
    \/ \E c \in Callers : SvcUpcoming(c) /\ UNCHANGED aux
    \/ \E c \in Callers : SvcSummary(c) /\ UNCHANGED aux
    \/ \E c \in Callers : SvcError(c) /\ UNCHANGED aux

SpecApi == Init /\ [][NextApi]_vars

\* issueCertificates next to the writers of the status it reads: the handlers,
\* and the passes of the service, started by its timers and by manualUpdate.
NextCert ==
    \/ Advance /\ UNCHANGED aux
    \/ \E e \in EventIds, o \in DateOffsets, at \in CallTimes(clock), role \in Roles :
           CreateEvent(e, at + o, at, role) /\ UNCHANGED aux
    \/ \E e \in EventIds, s \in LifecycleStatuses : EditStatus(e, s) /\ UNCHANGED aux
    \/ \E e \in EventIds : CancelEvent(e) /\ UNCHANGED aux
    \/ \E c \in Callers : SvcCall(c) /\ UNCHANGED aux
    \/ \E c \in Callers : SvcOngoing(c) /\ UNCHANGED aux
    \/ \E c \in Callers : SvcCompleted(c) /\ UNCHANGED aux
    \/ \E c \in Callers : SvcUpcoming(c) /\ UNCHANGED aux
    \/ \E c \in Callers : SvcSummary(c) /\ UNCHANGED aux
    \/ \E c \in Callers : SvcError(c) /\ UNCHANGED aux
    \/ \E e \in EventIds, w \in Winners, requester \in Requesters, bodyOk \in BOOLEAN :
           IssueCall(e, w, requester, bodyOk)
    \/ IssueFind
    \/ \E wallet \in Wallets : IssueStudent(wallet)
    \/ IssueExisting
    \/ IssueSave
    \/ IssuePopulate
    \/ IssueWinnerError
    \/ IssueError
    \/ IssueDone

SpecCert == Init /\ [][NextCert]_vars

----------------------------------------------------------------------------
(* controllers/eventController.js: enrollInEvent, unenrollFromEvent,       *)
(* modifyParticipants, and updateEvent with participants or maxParticipants *)
(* in the body                                                             *)

\* the values of maxParticipants that createEvent and updateEvent are given
Capacities == {1, 2}

\* the handlers that load an event, change its participants and save it
Handlers == {"enrollInEvent", "unenrollFromEvent", "modifyParticipants"}

\* req.body.action of modifyParticipants
Actions == {"add", "remove", "other"}

\* student s is in the participants array list
Includes(list, s) == \E i \in 1..Len(list) : list[i] = s

\* participants.filter: the array without student s
RECURSIVE Without(_, _)
Without(list, s) ==
    IF list = << >> THEN << >>
    ELSE IF Head(list) = s THEN Without(Tail(list), s)
    ELSE << Head(list) >> \o Without(Tail(list), s)

\* createEvent with maxParticipants in the body: the new document has no
\* participants
CreateEventWith(e, date, at, role, max) ==
    /\ CreateEvent(e, date, at, role)
    /\ enrol' = [enrol EXCEPT !.max[e] = max, !.participants[e] = << >>]
    /\ UNCHANGED << updated, changed, admin, tick, written, cert, info >>

\* what a step of a request on participants leaves alone
EnrolFrame ==
    UNCHANGED << clock, events, since, enabled, isRunning, svc, startupFired, bulk,
                 interfered, updated, changed, admin, tick,
                 written, cert, info >>

\* request q holds the document of event e in memory and has yet to save it
HasLoaded(q, e) == q.pc \in {"lookup", "student", "save"} /\ q.event = e

\* request q assigns a new array, or may still do so: its save is a $set
\* that names __v
Assigns(q) == q.pc = "lookup" \/ q.op = "set"

\* request q is answered
Answered(http) == [pc |-> "responded", http |-> http]

\* the document of request q after participants.push (op "push") or after
\* participants was assigned the filtered array (op "set").  Of the document
\* the request keeps what save will validate and send: the date, the pushed
\* student or the assigned array, whether __v is still the stored one; max is
\* the maxParticipants it was loaded with
Changed(q, pc, op) ==
    [pc |-> pc, handler |-> q.handler, event |-> q.event, student |-> q.student,
     op |-> op, array |-> IF op = "set" THEN Without(q.loaded, q.student) ELSE << >>,
     max |-> q.max, date |-> q.date, diverged |-> q.diverged]

\* event.save() is called on the document q: save validates the document as
\* loaded, date included, and a document that fails is not sent (the catch
\* answers 400)
CallSave(q) ==
    IF ~DateValid(q.date, clock) THEN Answered(400)
    ELSE [q EXCEPT !.pc = "save"]

\* a handler is called for student s on event e and sends Event.findById
EnrolCall(r, h, e, s) ==
    /\ enrol.req[r].pc = "idle"
    /\ enrol' = [enrol EXCEPT !.req[r] =
                    [pc |-> "find", handler |-> h, event |-> e, student |-> s]]
    /\ EnrolFrame

\* findById lands: 404 for no event.  enrollInEvent: 400 for an event that is
\* full or has the student, else push and save.  unenrollFromEvent: 400 for a
\* student who is not enrolled, else filter and save.  modifyParticipants:
\* 403 for a requester who is not the organizer (owner: event.organizer
\* equals req.student._id), else Student.findById
EnrolFind(r, owner) ==
    /\ enrol.req[r].pc = "find"
    /\ LET q == enrol.req[r]
           e == q.event
           doc == [pc |-> "lookup", handler |-> q.handler, event |-> e,
                   student |-> q.student, loaded |-> enrol.participants[e],
                   max |-> enrol.max[e], date |-> events[e].date,
                   diverged |-> FALSE]
       IN  enrol' = [enrol EXCEPT !.req[r] =
               IF ~Exists(events, e) THEN Answered(404)
               ELSE IF q.handler = "enrollInEvent"
               THEN IF Len(doc.loaded) >= doc.max \/ Includes(doc.loaded, q.student)
                    THEN Answered(400)
                    ELSE CallSave(Changed(doc, "save", "push"))
               ELSE IF q.handler = "unenrollFromEvent"
               THEN IF ~Includes(doc.loaded, q.student)
                    THEN Answered(400)
                    ELSE CallSave(Changed(doc, "save", "set"))
               ELSE IF ~owner THEN Answered(403)
               ELSE doc]
    /\ EnrolFrame

\* modifyParticipants, Student.findById lands: 404 for no student.  add: 400
\* for a student already in the loaded array or an event that is full as
\* loaded, else push.  remove: 400 for a student who is not in the array, else
\* filter.  Another action: 400.  After push or filter
\* Student.findByIdAndUpdate is sent.  action is req.body.action, which the
\* handler reads here for the first time
EnrolLookup(r, found, action) ==
    /\ enrol.req[r].pc = "lookup"
    /\ LET q == enrol.req[r]
       IN  enrol' = [enrol EXCEPT !.req[r] =
               IF ~found THEN Answered(404)
               ELSE IF action = "add"
               THEN IF Includes(q.loaded, q.student) \/ Len(q.loaded) >= q.max
                    THEN Answered(400)
                    ELSE Changed(q, "student", "push")
               ELSE IF action = "remove"
               THEN IF ~Includes(q.loaded, q.student)
                    THEN Answered(400)
                    ELSE Changed(q, "student", "set")
               ELSE Answered(400)]
    /\ EnrolFrame

\* modifyParticipants, Student.findByIdAndUpdate lands: event.save() is
\* called
EnrolStudent(r) ==
    /\ enrol.req[r].pc = "student"
    /\ enrol' = [enrol EXCEPT !.req[r] = CallSave(enrol.req[r])]
    /\ EnrolFrame

\* event.save() lands.  A pushed array is saved as $push with $inc of __v and
\* no condition on __v; an assigned array as $set with __v as loaded in the
\* condition, so that it is rejected (VersionError, 400) when a save has
\* changed the array since the load.  After the write the other documents in
\* memory have an older __v, which the save of an assigned array will meet.
\* enrollInEvent and unenrollFromEvent go on to Student.findByIdAndUpdate,
\* modifyParticipants answers 200
EnrolSave(r) ==
    /\ enrol.req[r].pc = "save"
    /\ LET q == enrol.req[r]
           e == q.event
           after(x) == IF x = r
                       THEN IF q.handler = "modifyParticipants"
                            THEN Answered(200)
                            ELSE [pc |-> "update"]
                       ELSE IF HasLoaded(enrol.req[x], e) /\ Assigns(enrol.req[x])
                       THEN [enrol.req[x] EXCEPT !.diverged = TRUE]
                       ELSE enrol.req[x]
       IN  enrol' = IF q.op = "set" /\ q.diverged
                    THEN [enrol EXCEPT !.req[r] = Answered(400)]
                    ELSE [enrol EXCEPT
                             !.participants[e] =
                                 IF q.op = "push" THEN Append(@, q.student) ELSE q.array,
                             !.req = [x \in Requests |-> after(x)]]
    /\ EnrolFrame

\* enrollInEvent and unenrollFromEvent, Student.findByIdAndUpdate lands after
\* the save: 200
EnrolUpdate(r) ==
    /\ enrol.req[r].pc = "update"
    /\ enrol' = [enrol EXCEPT !.req[r] = Answered(200)]
    /\ EnrolFrame

\* a store operation of the request throws: the catch answers 400
EnrolError(r) ==
    /\ enrol.req[r].pc \in {"find", "lookup", "student", "save", "update"}
    /\ enrol' = [enrol EXCEPT !.req[r] = Answered(400)]
    /\ EnrolFrame

\* the client has its response
EnrolDone(r) ==
    /\ enrol.req[r].pc = "responded"
    /\ enrol' = [enrol EXCEPT !.req[r] = RequestIdle]
    /\ EnrolFrame

\* the bodies of updateEvent that name maxParticipants or participants
EnrolBodies ==
    {[maxParticipants |-> m] : m \in Capacities} \cup {[participants |-> << >>]}

\* updateEvent with one of these bodies: findOneAndUpdate sets the field on
\* the stored document, with no check against the other and no change of __v
EnrolEdit(e, body) ==
    /\ Exists(events, e)
    /\ LET max == IF "maxParticipants" \in DOMAIN body
                  THEN body.maxParticipants ELSE enrol.max[e]
           list == IF "participants" \in DOMAIN body
                   THEN body.participants ELSE enrol.participants[e]
       IN  /\ max # enrol.max[e] \/ list # enrol.participants[e]
           /\ enrol' = [enrol EXCEPT !.max[e] = max, !.participants[e] = list]
    /\ EnrolFrame

\* the participants are followed over the first step of the clock: time
\* reaches these requests through the date validator of save only
EnrolHorizon == ClockStep

\* createEvent, updateEvent and the requests that change participants, as
\* they interleave, next to the passes that the timers of init() start
NextEnrol ==
    \/ Advance /\ clock < EnrolHorizon /\ UNCHANGED aux
    \/ \E c \in Timers : SvcCall(c) /\ UNCHANGED aux
    \/ \E c \in Timers : SvcOngoing(c) /\ UNCHANGED aux
    \/ \E c \in Timers : SvcCompleted(c) /\ UNCHANGED aux
    \/ \E c \in Timers : SvcUpcoming(c) /\ UNCHANGED aux
    \/ \E c \in Timers : SvcSummary(c) /\ UNCHANGED aux
    \/ \E c \in Timers : SvcError(c) /\ UNCHANGED aux
    \/ \E e \in EventIds, o \in DateOffsets, at \in {clock}, role \in Roles,
          max \in Capacities :
           CreateEventWith(e, at + o, at, role, max)
    \/ \E e \in EventIds, body \in EnrolBodies : EnrolEdit(e, body)
    \/ \E r \in Requests, h \in Handlers, e \in EventIds, s \in Students :
           EnrolCall(r, h, e, s)
    \/ \E r \in Requests, owner \in BOOLEAN : EnrolFind(r, owner)
    \/ \E r \in Requests, found \in BOOLEAN, action \in Actions :
           EnrolLookup(r, found, action)
    \/ \E r \in Requests : EnrolStudent(r)
    \/ \E r \in Requests : EnrolSave(r)
    \/ \E r \in Requests : EnrolUpdate(r)
    \/ \E r \in Requests : EnrolError(r)
    \/ \E r \in Requests : EnrolDone(r)

SpecEnrol == Init /\ [][NextEnrol]_vars

----------------------------------------------------------------------------
(* The transition rule of the specification and shared vocabulary of the   *)
(* properties                                                              *)

CompletionGrace == 30 * 60 * 1000

\* target status for scheduledAt t at time now
Target(t, now) ==
    IF t > now THEN "upcoming"
    ELSE IF now - t < CompletionGrace THEN "ongoing"
    ELSE "completed"

\* a store write of updateAllEventStatuses by caller c
SvcWrite(c) == SvcOngoing(c) \/ SvcCompleted(c) \/ SvcUpcoming(c)

\* a store write of any reconciliation pass
SchedulerWrite ==
    \/ \E c \in Callers : SvcWrite(c)
    \/ \E b \in BagToSet(bulk) : BulkSave(b)

\* the fields the scheduler owns are equal in two documents
SameStatusFields(a, b) ==
    /\ a.status = b.status
    /\ a.completedAt = b.completedAt
    /\ a.lastStatusUpdate = b.lastStatusUpdate
    /\ a.statusUpdateCount = b.statusUpdateCount

----------------------------------------------------------------------------
\* C1: cancelled is sticky: no store write of a reconciliation pass changes
\* status, completedAt, lastStatusUpdate or statusUpdateCount of an event
\* whose stored status is cancelled.
C1_CancelledSticky ==
    [][SchedulerWrite =>
         \A e \in EventIds :
            events[e].status = "cancelled" => SameStatusFields(events[e], events'[e])]_vars

\* C2: no overlapping passes: at most one call of updateAllEventStatuses is
\* between its first and its last store operation.
C2_NoOverlappingPasses ==
    Cardinality({c \in Callers : InFlight(c)}) <= 1

\* a call of manualUpdate arrived while a pass was in flight and returned at
\* the guard; the pass is still in flight
C2_Witness ==
    /\ admin.pc = "responded"
    /\ admin.outcome = "skipped"
    /\ admin.response.serviceStatus.isRunning
    /\ \E c \in Callers : InFlight(c)

\* C3: completedAt coherence: an event that is not cancelled has completedAt
\* set if and only if its status is completed.
C3_CompletedAtCoherence ==
    \A e \in EventIds :
        (Exists(events, e) /\ events[e].status # "cancelled")
            => ((events[e].completedAt # Absent) <=> (events[e].status = "completed"))

\* a pass of updateAllEventStatuses has done its three updates, nothing threw
\* and no other writer touched the store meanwhile
CleanPassDone(c) == svc[c].pc = "summary" /\ ~interfered

Live(e) == Exists(events, e) /\ events[e].status # "cancelled"

\* C4: pass postcondition: after an undisturbed pass with captured time now,
\* every event that is not cancelled has the target status for its
\* scheduledAt and that now.
C4_PassPostcondition ==
    \A c \in Callers :
        CleanPassDone(c) =>
            \A e \in EventIds :
                Live(e) => events[e].status = Target(events[e].date, svc[c].now)

\* C5: the decision of updateStatus: for every stored document and the
\* current time, updateStatus leaves a cancelled document as it is and gives
\* any other document the target status of the transition rule.
C5_UpdateStatusDecision ==
    \A e \in EventIds :
        Exists(events, e) =>
            LET doc == updateStatus(events[e], clock)
            IN  IF events[e].status = "cancelled"
                THEN doc = events[e]
                ELSE doc.status = Target(events[e].date, clock)

\* the store holds an ongoing event that updateStatus moves to completed now,
\* exactly at the end of the grace window
C5_Witness ==
    \E e \in EventIds :
        /\ events[e].status = "ongoing"
        /\ clock - events[e].date = CompletionGrace
        /\ updateStatus(events[e], clock).status = "completed"
        /\ updateStatus(events[e], clock).completedAt = clock

\* C6: grace-window boundary: after an undisturbed pass with captured time
\* now, an event with scheduledAt = now - 30 minutes is not left upcoming or
\* ongoing, and an event with scheduledAt = now is not left upcoming.
C6_GraceBoundary ==
    \A c \in Callers :
        CleanPassDone(c) =>
            \A e \in EventIds :
                /\ events[e].date = svc[c].now - CompletionGrace
                       => events[e].status \notin {"upcoming", "ongoing"}
                /\ events[e].date = svc[c].now
                       => events[e].status # "upcoming"

\* the write of this step, by a pass that captured now, sets no event
\* completed before now - scheduledAt reaches 30 minutes and sets no event
\* ongoing or completed whose scheduledAt is later than now
NotPremature(now) ==
    \A e \in EventIds :
        events'[e] # events[e] =>
            /\ events'[e].status = "completed"
                   => now - events[e].date >= CompletionGrace
            /\ events'[e].status \in {"ongoing", "completed"}
                   => events[e].date <= now

\* C7: no premature transition: a store write of a reconciliation pass with
\* captured time now, an updateMany of updateAllEventStatuses or a save of
\* updateEventsStatus, never makes an event completed before
\* now - scheduledAt reaches 30 minutes, and never makes an event ongoing or
\* completed whose scheduledAt is later than now.
C7_NoPrematureTransition ==
    [][/\ \A c \in Callers : SvcWrite(c) => NotPremature(svc[c].now)
       /\ \A b \in BagToSet(bulk) : BulkSave(b) => NotPremature(b.at)]_vars

\* C8: no write when the status is already correct: a store write of an
\* undisturbed pass leaves an event whose status equals the target for the
\* pass's now unchanged in status, completedAt, lastStatusUpdate and
\* statusUpdateCount.
C8_NoWriteWhenCorrect ==
    [][\A c \in Callers :
         (SvcWrite(c) /\ ~interfered) =>
            \A e \in EventIds :
                (Live(e) /\ events[e].status = Target(events[e].date, svc[c].now))
                    => SameStatusFields(events[e], events'[e])]_vars

\* C9: idempotence: a second application with the same now changes nothing:
\* of updateStatus on every stored document, of the three updates of a pass
\* on every store, and of a pass on the store an undisturbed pass has left.
C9_Idempotence ==
    /\ \A e \in EventIds :
          Exists(events, e) =>
              updateStatus(updateStatus(events[e], clock), clock)
                  = updateStatus(events[e], clock)
    /\ PassFn(PassFn(events, clock), clock) = PassFn(events, clock)
    /\ \A c \in Callers :
          CleanPassDone(c) => PassFn(events, svc[c].now) = events

\* an undisturbed pass has just changed an event's status
C9_Witness ==
    \E c \in Callers, e \in EventIds :
        /\ CleanPassDone(c)
        /\ events[e].lastStatusUpdate = svc[c].now
        /\ events[e].status = "completed"
        /\ events[e].completedAt = svc[c].now

\* C10: statusUpdateCount bookkeeping: a store write of a reconciliation pass
\* that changes an event's status increases its statusUpdateCount by exactly
\* 1, and one that does not change the status leaves the count alone.
C10_StatusUpdateCount ==
    [][SchedulerWrite =>
         \A e \in EventIds :
            Exists(events, e) =>
                events'[e].statusUpdateCount =
                    IF events'[e].status # events[e].status
                    THEN events[e].statusUpdateCount + 1
                    ELSE events[e].statusUpdateCount]_vars

----------------------------------------------------------------------------
\* the fields a write at time now leaves on every event whose stored status it
\* changes
TransitionFields(now) ==
    \A e \in EventIds :
        (Exists(events, e) /\ events'[e].status # events[e].status) =>
            /\ events'[e].lastStatusUpdate = now
            /\ (events'[e].status = "completed" => events'[e].completedAt = now)
            /\ (events[e].status = "completed" => events'[e].completedAt = Absent)

\* C11: fields written on a transition: a store write of a pass that changes
\* an event's status sets lastStatusUpdate to the now of the pass, sets
\* completedAt to that now when the new status is completed, and clears
\* completedAt when the old status was completed.
C11_TransitionFields ==
    [][/\ \A c \in Callers : SvcWrite(c) => TransitionFields(svc[c].now)
       /\ \A b \in BagToSet(bulk) : BulkSave(b) => TransitionFields(b.at)]_vars


\* C12: monotonic timestamps: across passes, creations and edits, the
\* lastStatusUpdate of a stored event never decreases.
C12_MonotonicLastStatusUpdate ==
    [][\A e \in EventIds :
          (Exists(events, e) /\ Exists(events', e))
              => events'[e].lastStatusUpdate >= events[e].lastStatusUpdate]_vars

\* C13: isRunning lifecycle: isRunning is true exactly while a call of
\* updateAllEventStatuses is between its guard and its finally block, so it
\* is true during every store operation of a pass and false again once the
\* pass has ended, by a throw or not.
C13_IsRunningLifecycle ==
    isRunning <=> (\E c \in Callers : InFlight(c))

\* a pass run for the admin endpoint ended in catch, and a later pass is in
\* flight
C13_Witness ==
    /\ admin.pc = "responded"
    /\ admin.outcome = "failed"
    /\ isRunning
    /\ \E c \in Callers : InFlight(c)

\* C14: re-entrancy is observable: a call of manualUpdate made while a pass
\* is in flight returns a value that differs from the value returned by a
\* call that ran a pass.
C14_ReentrancyObservable ==
    (admin.pc = "responded" /\ admin.outcome = "skipped")
        => admin.result # manualUpdate("ran")

\* the times at which a pass can capture its now: the instants of the clock
PassTimes == {k * ClockStep : k \in 0..MaxTicks} \cup {StartupDelay}

\* C15: when an edit moves the date of an upcoming event from the future to a
\* time not later than now, a pass that starts at any later time moves the
\* event to the target status for its date: ongoing when the date is less than
\* 30 minutes back, completed when it is 30 minutes or more.
C15_EditedIntoPast ==
    [][\A e \in EventIds :
          (/\ \E o \in DateOffsets, at \in CallTimes(clock) : EditDate(e, at + o, at)
           /\ events[e].status = "upcoming"
           /\ events[e].date > clock
           /\ events'[e].date <= clock)
              => \A now \in PassTimes :
                    now >= clock =>
                        PassFn(events', now)[e].status = Target(events'[e].date, now)]_vars

C17_PassFailureAbsorbed ==
    [][\A c \in Callers :
          RunError(c) =>
              /\ ~isRunning'
              /\ ~AlreadyRunning(isRunning')
              /\ (c = "manual" => admin'.response.http = 200)
              /\ updated = 0]_vars

\* the updates of the pass of caller c that come after the one at position pc
RemainingUpdates(pc, ev, now) ==
    CASE pc = "ongoing" -> UpdateManyUpcoming(UpdateManyCompleted(ev, now), now)
      [] pc = "completed" -> UpdateManyUpcoming(ev, now)
      [] OTHER -> ev

\* the records of the update that threw
FailedGroup(pc, doc, now) ==
    CASE pc = "ongoing" -> MatchOngoing(doc, now)
      [] pc = "completed" -> MatchCompleted(doc, now)
      [] pc = "upcoming" -> MatchUpcoming(doc, now)
      [] OTHER -> FALSE

\* C18: per-record error isolation: when the write for one group of records
\* throws in a pass that no other writer has disturbed, the pass still applies
\* the updates that come after it to every record outside that group.
C18_ErrorIsolation ==
    [][\A c \in Callers :
          (RunError(c) /\ ~interfered) =>
              \A e \in EventIds :
                  ~FailedGroup(svc[c].pc, events[e], svc[c].now) =>
                      events'[e] = RemainingUpdates(svc[c].pc, events, svc[c].now)[e]]_vars

\* C19: failures are surfaced: after a pass that ended in catch, the value
\* manualUpdate returned or the result of getStatus() differs from what it is
\* after a pass that ran to its end, and the response of the admin endpoint
\* differs from the one it sends after such a pass.
C19_FailureSurfaced ==
    (admin.pc = "responded" /\ admin.outcome = "failed") =>
        LET at == admin.response.triggeredAt
        IN  /\ \/ admin.result # manualUpdate("ran")
               \/ admin.response.serviceStatus # getStatus(FALSE, enabled, at)
            /\ admin.response # StatusUpdateResponse(manualUpdate("ran"), FALSE, enabled, at)

\* C20: manualUpdate returns a summary whose total is the number of records
\* whose status the pass changed.
C20_ManualUpdateSummary ==
    (admin.pc = "responded" /\ admin.outcome = "ran") =>
        /\ admin.result.kind = "summary"
        /\ admin.result.total = admin.moved

\* C21: single write per record per pass: the pass in flight has written no
\* event record more than once, edits of the date between its store operations
\* included.
C21_SingleWritePerPass ==
    \A e \in EventIds : written[e] <= 1

\* C22: self-healing: with no edit of a date and no reconciler called while
\* another is in progress, after a call that failed or was held back at the
\* guard, an undisturbed pass that runs to its end leaves
\* every event that is not cancelled in the target status for its date and
\* the now of that pass.
C22_SelfHealing ==
    \A c \in Callers :
        (/\ admin.pc = "responded"
         /\ admin.outcome \in {"failed", "skipped"}
         /\ ~tick.overlap
         /\ CleanPassDone(c))
            => \A e \in EventIds :
                  Live(e) => events[e].status = Target(events[e].date, svc[c].now)


\* C23: the scheduler owns the transitions between upcoming, ongoing and
\* completed: a step that moves an existing event from one of these statuses
\* to another is a store write of a reconciliation pass.
C23_SchedulerOwnsTransitions ==
    [][(\E e \in EventIds :
            /\ Exists(events, e)
            /\ events[e].status \in LifecycleStatuses
            /\ events'[e].status \in LifecycleStatuses
            /\ events'[e].status # events[e].status)
        => \E c \in Callers : SvcWrite(c)]_vars

\* C30: certificates are gated on the lifecycle: a step of issueCertificates
\* adds a certificate only in a request, of the organizer or an admin, whose
\* read of the event found status completed; and when the read of a request
\* finds the event upcoming, ongoing or cancelled, the request is answered
\* with a failure at once (400 from the gate for the organizer or an admin,
\* 403 for another requester, 500 if the read throws) and adds no
\* certificate.
C30_CertificatesGated ==
    [][/\ (cert'.certs # cert.certs =>
              /\ cert.pc = "save"
              /\ MayIssue(cert.requester)
              /\ cert.status = "completed")
       /\ (/\ cert.pc = "find"
           /\ cert' # cert
           /\ Exists(events, cert.event)
           /\ events[cert.event].status # "completed")
              => /\ cert'.pc = "responded"
                 /\ cert'.http \in {400, 403, 500}
                 /\ cert'.issued = 0
                 /\ cert'.certs = cert.certs
                 /\ (IssueFind /\ MayIssue(cert.requester)) => cert'.http = 400]_vars

\* a certificate was issued for an event read as completed, by a request of
\* the organizer that was answered 201 with the certificate, and by then the
\* stored status is no longer completed
C30_Witness ==
    /\ cert.pc = "responded"
    /\ cert.http = 201
    /\ cert.issued = 1
    /\ cert.requester = "organizer"
    /\ cert.status = "completed"
    /\ events[cert.event].status # "completed"
    /\ \E r \in cert.certs : r.event = cert.event /\ r.student = cert.winner

\* C24: when enabled is false neither the cron callback nor the startup
\* timeout ever calls updateAllEventStatuses, so a pass in flight is one that
\* manualUpdate started; and the disabled service does not hold manualUpdate
\* back: a call made while no pass is in flight starts a pass with the current
\* time, and a call is answered without a pass only while an earlier manual
\* pass is still in flight.
C24_DisabledOnlyManual ==
    /\ [](~enabled =>
            /\ svc["cron"].pc = "idle"
            /\ svc["startup"].pc = "idle"
            /\ ~startupFired
            /\ isRunning => InFlight("manual")
            /\ (admin.pc = "responded" /\ admin.outcome = "skipped")
                   => admin.response.serviceStatus.isRunning)
    /\ [][(~enabled /\ AdminRequest /\ ~AlreadyRunning(isRunning))
             => /\ isRunning'
                /\ svc'["manual"] = [pc |-> "ongoing", now |-> clock]]_vars

\* with the service disabled a manual trigger ran a pass that wrote a record
C24_Witness ==
    /\ ~enabled
    /\ admin.pc = "responded"
    /\ admin.outcome = "ran"
    /\ admin.count > 0

\* C25: getStatus is side-effect-free: a step in which a controller calls it
\* (getStatusServiceInfo when its aggregate has landed, manualStatusUpdate
\* when manualUpdate has resolved) makes no change that the rest of the step
\* does not make: in getStatusServiceInfo isRunning, enabled, the callers of
\* the service and every event record stay as they are; and the isRunning it
\* returns is true exactly when a pass is in flight at the time of the call,
\* with enabled and updateInterval returned as held.
C25_GetStatusReadOnly ==
    [][/\ (info.pc = "aggregate" /\ info'.pc = "count") =>
              /\ isRunning' = isRunning
              /\ enabled' = enabled
              /\ svc' = svc
              /\ events' = events
              /\ info'.service.isRunning = (\E c \in Callers : InFlight(c))
              /\ info'.service.enabled = enabled
              /\ info'.service.updateInterval = UpdateInterval
       /\ (admin' # admin /\ admin'.pc = "responded") =>
              /\ enabled' = enabled
              /\ admin'.response.serviceStatus.isRunning
                     = (\E c \in Callers : svc'[c].pc # "idle")
              /\ admin'.response.serviceStatus.enabled = enabled
              /\ admin'.response.serviceStatus.updateInterval = UpdateInterval]_vars

\* a status request was answered 200 with a reading of getStatus taken while
\* a pass was in flight, and by the time of the answer the pass is over
C25_Witness ==
    /\ info.pc = "responded"
    /\ info.http = 200
    /\ info.service.isRunning
    /\ ~isRunning
    /\ info.totalEvents > 0

\* position of a status in the order upcoming < ongoing < completed
Rank(status) ==
    CASE status = "upcoming" -> 0
      [] status = "ongoing" -> 1
      [] OTHER -> 2

\* C26: status never regresses without an edit: when no date is edited and
\* the passes of the service and of updateEventsStatus follow one another,
\* every step that takes an event from one of upcoming, ongoing, completed to
\* another takes it upwards in that order.
C26_NoRegression ==
    [][\A e \in EventIds :
          (/\ ~tick'.overlap
           /\ Exists(events, e)
           /\ events[e].status \in LifecycleStatuses
           /\ events'[e].status \in LifecycleStatuses)
              => Rank(events'[e].status) >= Rank(events[e].status)]_vars

\* an event whose date was never edited has been completed by a pass more
\* than 30 minutes after its date
C26_Witness ==
    \E e \in EventIds :
        /\ ~tick.overlap
        /\ events[e].status = "completed"
        /\ events[e].completedAt > events[e].date + ThirtyMinutes
        /\ ~isRunning

\* the clock of the model goes on to a time later than date + 30 minutes
WithinHorizon(e) == events[e].date + CompletionGrace < MaxClock

\* completed, with completedAt set
Completed(e) ==
    /\ events[e].status = "completed"
    /\ events[e].completedAt # Absent

\* C27: eventual completion: with the service enabled, timers that fire and
\* store operations that succeed in the end, every event (none is edited or
\* cancelled) whose date + 30 minutes the clock passes is eventually completed
\* with completedAt set, and a completed event stays completed.
C27_EventualCompletion ==
    /\ \A e \in EventIds :
           (Exists(events, e) /\ WithinHorizon(e)) ~> Completed(e)
    /\ [][\A e \in EventIds : Completed(e) => Completed(e)']_vars

\* an event created by the handler has been completed by a pass of the
\* service, and that pass has ended
C27_Witness ==
    \E e \in EventIds :
        /\ Completed(e)
        /\ WithinHorizon(e)
        /\ ~isRunning

\* the records each of the three filters matches in store ev at now
MatchedOngoing(ev, now) == {e \in EventIds : MatchOngoing(ev[e], now)}

MatchedCompleted(ev, now) == {e \in EventIds : MatchCompleted(ev[e], now)}

MatchedUpcoming(ev, now) == {e \in EventIds : MatchUpcoming(ev[e], now)}

\* the store after the three bulk updates in each of the five other orders
OtherOrders(ev, now) ==
    { UpdateManyCompleted(UpdateManyUpcoming(UpdateManyOngoing(ev, now), now), now),
      UpdateManyUpcoming(UpdateManyOngoing(UpdateManyCompleted(ev, now), now), now),
      UpdateManyOngoing(UpdateManyUpcoming(UpdateManyCompleted(ev, now), now), now),
      UpdateManyCompleted(UpdateManyOngoing(UpdateManyUpcoming(ev, now), now), now),
      UpdateManyOngoing(UpdateManyCompleted(UpdateManyUpcoming(ev, now), now), now) }

\* C28: order independence of the three bulk updates: for the store as it is
\* and any captured now, the three filters match pairwise disjoint sets of
\* records, a record that one update has written is matched by neither of the
\* other two, and the three updates applied in any order give the store that
\* the order of the code gives.
C28_OrderIndependence ==
    \A now \in PassTimes :
        /\ MatchedOngoing(events, now) \cap MatchedCompleted(events, now) = {}
        /\ MatchedOngoing(events, now) \cap MatchedUpcoming(events, now) = {}
        /\ MatchedCompleted(events, now) \cap MatchedUpcoming(events, now) = {}
        /\ MatchedOngoing(events, now)
               \cap (MatchedCompleted(UpdateManyOngoing(events, now), now)
                     \cup MatchedUpcoming(UpdateManyOngoing(events, now), now)) = {}
        /\ MatchedCompleted(events, now)
               \cap (MatchedOngoing(UpdateManyCompleted(events, now), now)
                     \cup MatchedUpcoming(UpdateManyCompleted(events, now), now)) = {}
        /\ MatchedUpcoming(events, now)
               \cap (MatchedOngoing(UpdateManyUpcoming(events, now), now)
                     \cup MatchedCompleted(UpdateManyUpcoming(events, now), now)) = {}
        /\ OtherOrders(events, now) = {PassFn(events, now)}

\* a pass has captured its now and has its three updates ahead; the store
\* holds a record that one of them matches
C28_Witness ==
    \E c \in Callers :
        /\ svc[c].pc = "ongoing"
        /\ ~interfered
        /\ MatchedOngoing(events, svc[c].now) \cup MatchedCompleted(events, svc[c].now)
               \cup MatchedUpcoming(events, svc[c].now) # {}

\* C29: enrolment capacity: whatever the interleaving of the requests on the
\* participants of an event, when the save of enrollInEvent or of
\* modifyParticipants(add) stores its push, on an event whose maxParticipants
\* is the one the request read, the event has no more participants than its
\* maxParticipants.
C29_CapacityRespected ==
    [][\A r \in Requests :
          (/\ EnrolSave(r)
           /\ enrol.req[r].op = "push"
           /\ enrol.req[r].max = enrol.max[enrol.req[r].event])
              => Len(enrol'.participants[enrol.req[r].event])
                     <= enrol'.max[enrol.req[r].event]]_vars

============================================================================
